---- MODULE Spec2Model ----
(***************************************************************************)
(* A model of the astronomy picture viewer (app.js, config.js): the        *)
(* response-normalization adapter (AstronomyAPIService), the reactive      *)
(* state (AppState) and the load flow of ControlsComponent.loadPicture.    *)
(*                                                                         *)
(* JavaScript values are modelled as strings: the markers Undefined, Null  *)
(* and False stand for the values undefined, null and false; every other   *)
(* string is that JavaScript string.  Objects are records; a key that is   *)
(* not in the DOMAIN of a record is an absent property.                    *)
(***************************************************************************)
EXTENDS Integers, Sequences, FiniteSets, TLC

VARIABLES
    state,          \* AppState.state: loading, error, currentPicture, selectedDate
    dateInput,      \* elements.dateInput.value
    apiConfig,      \* the config held by the apiService of the controls
    appApiConfig,   \* AstronomyPictureApp.apiConfig, held by app.apiService
    inflight,       \* fetch requests sent and not yet settled
    loadsStarted,   \* number of loadPicture calls so far
    fetchCalls,     \* number of calls of fetch(url) so far
    appPhase,       \* position of initializeApp
    retryBtn,       \* whether the error element holds the demo button
    last,           \* the last step taken (history)
    tMapping,       \* transformResponse under test: this.config.responseMapping
    tData,          \*   its argument
    tResult,        \*   its result
    tDone,          \*   whether it has been applied
    uConfig,        \* buildApiUrl under test: this.config
    uDate,          \*   its argument
    uResult,        \*   its result
    uDone,          \*   whether it has been applied
    cConfigs,       \* loadApiConfig under test: the global API_CONFIGS
    cActive,        \*   the global ACTIVE_API
    cResult,        \*   its result
    cDone           \*   whether it has been applied

vars == <<state, dateInput, apiConfig, appApiConfig, inflight, loadsStarted,
          fetchCalls, appPhase, retryBtn, last, tMapping, tData, tResult,
          tDone, uConfig, uDate, uResult, uDone, cConfigs, cActive, cResult,
          cDone>>

appVars == <<state, dateInput, apiConfig, appApiConfig, inflight, loadsStarted,
             fetchCalls, appPhase, retryBtn, last>>
tVars == <<tMapping, tData, tResult, tDone>>
uVars == <<uConfig, uDate, uResult, uDone>>
cVars == <<cConfigs, cActive, cResult, cDone>>

----------------------------------------------------------------------------
(* Bounds *)

MaxOverride == 2    \* properties set individually in a raw response under test
MaxLoads == 3       \* loadPicture calls in one run

----------------------------------------------------------------------------
(* JavaScript values *)

Undefined == "<undefined>"
Null == "<null>"
False == "<false>"
NullObject == [isNull |-> TRUE]      \* null where an object is expected

Falsy == {Undefined, Null, False, ""}
Truthy(v) == v \notin Falsy

\* a || b
Or(a, b) == IF Truthy(a) THEN a ELSE b

\* obj[key]: undefined when the property is absent
Get(obj, key) == IF key \in DOMAIN obj THEN obj[key] ELSE Undefined

\* values a JSON document can hold under a key
JSONValues == {Null, False, "", "A", "video"}

----------------------------------------------------------------------------
(* config.js *)

NasaMapping ==
    [title |-> "title", date |-> "date", explanation |-> "explanation",
     url |-> "url", hdurl |-> "hdurl", mediaType |-> "media_type",
     copyright |-> "copyright"]

CustomMapping ==
    [title |-> "picture_title", date |-> "picture_date",
     explanation |-> "description", url |-> "image_url",
     hdurl |-> "high_res_url", mediaType |-> "type", copyright |-> "credit"]

GuideMapping ==
    [title |-> "picture_title", date |-> "picture_date",
     explanation |-> "description", url |-> "image_url",
     hdurl |-> "high_res_url", mediaType |-> "content_type",
     copyright |-> "image_credit"]

Mappings == {NasaMapping, CustomMapping, GuideMapping}

LogicalFields ==
    {"title", "date", "explanation", "url", "hdurl", "mediaType", "copyright"}

\* the name a logical field has in the picture record
RecordField(f) == IF f = "mediaType" THEN "media_type" ELSE f

RecordFields == {RecordField(f) : f \in LogicalFields}

RawKeys == RecordFields \cup UNION {{m[f] : f \in LogicalFields} : m \in Mappings}

----------------------------------------------------------------------------
(* AstronomyAPIService.transformResponse *)

\* transformResponse without the fallback to the same-named property
transformResponse_nofallback(mapping, data) ==
    IF mapping = NullObject THEN data
    ELSE
    [title |-> Get(data, mapping.title),
     date |-> Get(data, mapping.date),
     explanation |-> Get(data, mapping.explanation),
     url |-> Get(data, mapping.url),
     hdurl |-> Get(data, mapping.hdurl),
     media_type |-> Or(Get(data, mapping.mediaType), "image"),
     copyright |-> Get(data, mapping.copyright)]

\* transformResponse without the 'image' default of media_type
transformResponse_nodefault(mapping, data) ==
    IF mapping = NullObject THEN data
    ELSE
    [title |-> Or(Get(data, mapping.title), Get(data, "title")),
     date |-> Or(Get(data, mapping.date), Get(data, "date")),
     explanation |-> Or(Get(data, mapping.explanation), Get(data, "explanation")),
     url |-> Or(Get(data, mapping.url), Get(data, "url")),
     hdurl |-> Or(Get(data, mapping.hdurl), Get(data, "hdurl")),
     media_type |-> Or(Get(data, mapping.mediaType), Get(data, "media_type")),
     copyright |-> Or(Get(data, mapping.copyright), Get(data, "copyright"))]

transformResponse(mapping, data) ==
    IF mapping = NullObject THEN data
    ELSE
    [title |-> Or(Get(data, mapping.title), Get(data, "title")),
     date |-> Or(Get(data, mapping.date), Get(data, "date")),
     explanation |-> Or(Get(data, mapping.explanation), Get(data, "explanation")),
     url |-> Or(Get(data, mapping.url), Get(data, "url")),
     hdurl |-> Or(Get(data, mapping.hdurl), Get(data, "hdurl")),
     media_type |-> Or(Or(Get(data, mapping.mediaType), Get(data, "media_type")),
                       "image"),
     copyright |-> Or(Get(data, mapping.copyright), Get(data, "copyright"))]

\* an upstream answer that carries every mapped name of a mapping
FullResponse(mapping) == [k \in {mapping[f] : f \in LogicalFields} |-> "A"]

\* { ...base, ...over }
Spread(base, over) ==
    [k \in DOMAIN base \cup DOMAIN over |->
        IF k \in DOMAIN over THEN over[k] ELSE base[k]]

\* raw responses under test: the empty object or the full answer of the
\* mapping, with at most MaxOverride properties set to arbitrary JSON values
RawResponses(mapping) ==
    LET Overrides ==
            UNION {[S -> JSONValues] :
                      S \in {K \in SUBSET RawKeys : Cardinality(K) <= MaxOverride}}
        Empty == [k \in {} |-> ""]
    IN  {Spread(base, over) : base \in {Empty, FullResponse(mapping)},
                              over \in Overrides}

----------------------------------------------------------------------------
(* The specification that applies transformResponse to bounded inputs *)

AppIdle ==
    /\ state = [loading |-> FALSE, error |-> Null,
                currentPicture |-> NullObject, selectedDate |-> ""]
    /\ dateInput = ""
    /\ apiConfig = NullObject
    /\ appApiConfig = NullObject
    /\ inflight = {}
    /\ loadsStarted = 0
    /\ fetchCalls = 0
    /\ appPhase = "off"
    /\ retryBtn = FALSE
    /\ last = [op |-> "none"]

TIdle ==
    /\ tMapping = NullObject
    /\ tData = NullObject
    /\ tResult = NullObject
    /\ tDone = FALSE

UIdle ==
    /\ uConfig = NullObject
    /\ uDate = ""
    /\ uResult = ""
    /\ uDone = FALSE

CIdle ==
    /\ cConfigs = NullObject
    /\ cActive = Undefined
    /\ cResult = NullObject
    /\ cDone = FALSE

InitTransform ==
    /\ AppIdle
    /\ UIdle
    /\ CIdle
    /\ tMapping \in Mappings
    /\ tData \in RawResponses(tMapping)
    /\ tResult = NullObject
    /\ tDone = FALSE

ApplyTransform ==
    /\ ~tDone
    /\ tResult' = transformResponse(tMapping, tData)
    /\ tDone' = TRUE
    /\ UNCHANGED <<tMapping, tData>>
    /\ UNCHANGED appVars
    /\ UNCHANGED uVars
    /\ UNCHANGED cVars

NextTransform == ApplyTransform

SpecTransform == InitTransform /\ [][NextTransform]_vars

----------------------------------------------------------------------------
(* Claims about transformResponse *)

HasMapped(f) == tMapping[f] \in DOMAIN tData
HasSameNamed(f) == RecordField(f) \in DOMAIN tData

\* C1 (as stated): when the raw response contains the mapped name of every
\* logical field, each field of the record equals the value held under the
\* mapped name, whatever that value is (also an empty or falsy one) and
\* whether or not a same-named unmapped property is present.
C1_MappedValueWins ==
    (tDone /\ \A f \in LogicalFields : HasMapped(f))
        => \A f \in LogicalFields :
              tResult[RecordField(f)] = tData[tMapping[f]]

\* C2 (as stated): for every logical field, when the raw response has no
\* entry under the mapped name but has one under the same-named field, the
\* record's field is the same-named field's value.
C2_SameNamedFallback ==
    tDone => \A f \in LogicalFields :
                (~HasMapped(f) /\ HasSameNamed(f))
                    => tResult[RecordField(f)] = tData[RecordField(f)]

\* C2 (amended): the same, except that media_type takes the same-named
\* value only when that value is truthy and is "image" otherwise.
C2_SameNamedFallbackAmended ==
    tDone => \A f \in LogicalFields :
                (~HasMapped(f) /\ HasSameNamed(f))
                    => tResult[RecordField(f)] =
                          IF f = "mediaType" /\ ~Truthy(tData[RecordField(f)])
                          THEN "image" ELSE tData[RecordField(f)]

\* a response with picture_title absent and title present has been
\* normalized under a mapping that renames title
C2_Witness ==
    /\ tDone
    /\ tMapping = CustomMapping
    /\ ~HasMapped("title") /\ HasSameNamed("title")
    /\ tData["title"] = "A"
    /\ tResult.title = "A"

\* C3 (as stated): for every logical field, when the raw response has
\* neither the mapped name nor the same-named field, the record's field
\* is undefined.
C3_BothAbsentUndefined ==
    tDone => \A f \in LogicalFields :
                (~HasMapped(f) /\ ~HasSameNamed(f))
                    => tResult[RecordField(f)] = Undefined

\* C3 (amended): the same for every field but media_type, which is then
\* "image".
C3_BothAbsentAmended ==
    tDone => \A f \in LogicalFields :
                (~HasMapped(f) /\ ~HasSameNamed(f))
                    => tResult[RecordField(f)] =
                          IF f = "mediaType" THEN "image" ELSE Undefined

\* a response without type and without media_type has been normalized
C3_Witness ==
    /\ tDone
    /\ tMapping = CustomMapping
    /\ ~HasMapped("mediaType") /\ ~HasSameNamed("mediaType")
    /\ ~HasMapped("url") /\ ~HasSameNamed("url")
    /\ tResult.media_type = "image"
    /\ tResult.url = Undefined

----------------------------------------------------------------------------
(* AstronomyAPIService.buildApiUrl *)

Today == "2026-11-06"              \* new Date().toISOString().split('T')[0]
Dates == {Today, "2025-01-15"}

BaseUrls == {"https://api.nasa.gov/planetary/apod", "https://your-api.com/astronomy"}
ApiKeys == {"DEMO_KEY", "your-api-key-here", "k&y 1"}
ParamNames == {"date", "api_key", "key", "picture date"}

\* application/x-www-form-urlencoded serialization of one string, as
\* URLSearchParams.toString applies it to names and values: a space becomes
\* '+', '&' becomes %26, and letters, digits, '-' and '_' stay
FormEncode(str) ==
    CASE str = "k&y 1" -> "k%26y+1"
      [] str = "picture date" -> "picture+date"
      [] OTHER -> str

\* the own properties of { [k1]: v1, [k2]: v2 } in enumeration order: a
\* repeated key keeps one property, holding the later value (no name of
\* ParamNames is an integer index, so insertion order is kept)
ObjectLiteral(k1, v1, k2, v2) ==
    IF k1 = k2 THEN << <<k2, v2>> >> ELSE << <<k1, v1>>, <<k2, v2>> >>

RECURSIVE toString(_)
\* URLSearchParams.prototype.toString
toString(params) ==
    IF params = << >> THEN ""
    ELSE FormEncode(params[1][1]) \o "=" \o FormEncode(params[1][2])
         \o (IF Len(params) > 1 THEN "&" ELSE "") \o toString(Tail(params))

buildApiUrl(config, date) ==
    LET params == ObjectLiteral(config.dateParam, date,
                                config.apiKeyParam, config.apiKey)
    IN  config.baseUrl \o "?" \o toString(params)

UrlConfigs ==
    [baseUrl : BaseUrls, apiKey : ApiKeys, dateParam : ParamNames,
     apiKeyParam : ParamNames, responseMapping : {NasaMapping}]

InitUrl ==
    /\ AppIdle
    /\ TIdle
    /\ CIdle
    /\ uConfig \in UrlConfigs
    /\ uDate \in Dates
    /\ uResult = ""
    /\ uDone = FALSE

ApplyBuildApiUrl ==
    /\ ~uDone
    /\ uResult' = buildApiUrl(uConfig, uDate)
    /\ uDone' = TRUE
    /\ UNCHANGED <<uConfig, uDate>>
    /\ UNCHANGED appVars
    /\ UNCHANGED tVars
    /\ UNCHANGED cVars

NextUrl == ApplyBuildApiUrl

SpecUrl == InitUrl /\ [][NextUrl]_vars

\* name=value as it appears in a query string
Param(name, value) == FormEncode(name) \o "=" \o FormEncode(value)

\* C7 (as stated): the request URL is the configured baseUrl followed by a
\* query string with exactly two parameters, the date under dateParam and
\* the API key under apiKeyParam, also when both names are the same string.
C7_TwoQueryParameters ==
    uDone =>
        LET d == Param(uConfig.dateParam, uDate)
            k == Param(uConfig.apiKeyParam, uConfig.apiKey)
        IN  uResult \in {uConfig.baseUrl \o "?" \o d \o "&" \o k,
                         uConfig.baseUrl \o "?" \o k \o "&" \o d}

----------------------------------------------------------------------------
(* AstronomyPictureApp.loadApiConfig and config.js *)

defaultConfig ==
    [baseUrl |-> "https://api.nasa.gov/planetary/apod", apiKey |-> "DEMO_KEY",
     dateParam |-> "date", apiKeyParam |-> "api_key",
     responseMapping |-> NasaMapping]

API_CONFIGS ==
    [nasa |-> [baseUrl |-> "https://api.nasa.gov/planetary/apod",
               apiKey |-> "DEMO_KEY", dateParam |-> "date",
               apiKeyParam |-> "api_key", responseMapping |-> NasaMapping],
     custom |-> [baseUrl |-> "https://your-api.com/astronomy",
                 apiKey |-> "your-api-key-here", dateParam |-> "date",
                 apiKeyParam |-> "key", responseMapping |-> CustomMapping]]

\* the profile config.js selects
ACTIVE_API == "nasa"

EmptyObject == [k \in {} |-> ""]

\* configs, active: the globals API_CONFIGS and ACTIVE_API as the page
\* defines them; NullObject and Undefined stand for a global that is not
\* defined.  configs[active] is undefined when active names no profile, and
\* spreading undefined adds nothing.
loadApiConfig_profileOnly(configs, active) ==
    IF configs # NullObject /\ active # Undefined
    THEN IF active \in DOMAIN configs THEN configs[active] ELSE defaultConfig
    ELSE defaultConfig

loadApiConfig(configs, active) ==
    IF configs # NullObject /\ active # Undefined
    THEN Spread(defaultConfig,
                IF active \in DOMAIN configs THEN configs[active]
                ELSE EmptyObject)
    ELSE defaultConfig

----------------------------------------------------------------------------
(* The specification that applies loadApiConfig to bounded globals *)

Restrict(obj, keys) == [k \in keys |-> obj[k]]

\* profiles that define only some of the parameters
PartialProfiles ==
    {Restrict(API_CONFIGS.custom, keys) :
        keys \in SUBSET DOMAIN API_CONFIGS.custom}

ConfigGlobals ==
    {NullObject} \cup
    {[nasa |-> API_CONFIGS.nasa, custom |-> p] : p \in PartialProfiles}

ActiveNames == {Undefined, "nasa", "custom", "mars"}

InitConfig ==
    /\ AppIdle
    /\ TIdle
    /\ UIdle
    /\ cConfigs \in ConfigGlobals
    /\ cActive \in ActiveNames
    /\ cResult = NullObject
    /\ cDone = FALSE

ApplyLoadApiConfig ==
    /\ ~cDone
    /\ cResult' = loadApiConfig(cConfigs, cActive)
    /\ cDone' = TRUE
    /\ UNCHANGED <<cConfigs, cActive>>
    /\ UNCHANGED appVars
    /\ UNCHANGED tVars
    /\ UNCHANGED uVars

NextConfig == ApplyLoadApiConfig

SpecConfig == InitConfig /\ [][NextConfig]_vars

\* whether ACTIVE_API names a profile of API_CONFIGS
NamesProfile ==
    /\ cConfigs # NullObject
    /\ cActive # Undefined
    /\ cActive \in DOMAIN cConfigs

\* C11: the configuration the adapter is built with takes every parameter
\* the profile named by ACTIVE_API defines from that profile and every
\* parameter it omits from the built-in NASA default; when API_CONFIGS or
\* ACTIVE_API is undefined, or ACTIVE_API names no profile, it is the
\* built-in NASA default unchanged.
C11_ActiveProfileSelectsConfig ==
    cDone =>
        IF NamesProfile
        THEN /\ DOMAIN cResult = DOMAIN defaultConfig
             /\ \A k \in DOMAIN defaultConfig :
                    cResult[k] = IF k \in DOMAIN cConfigs[cActive]
                                 THEN cConfigs[cActive][k]
                                 ELSE defaultConfig[k]
        ELSE cResult = defaultConfig

\* a profile that sets the endpoint and omits the key was merged
C11_Witness ==
    /\ cDone
    /\ NamesProfile
    /\ cActive = "custom"
    /\ DOMAIN cConfigs.custom = {"baseUrl", "responseMapping"}
    /\ cResult.baseUrl = "https://your-api.com/astronomy"
    /\ cResult.responseMapping = CustomMapping
    /\ cResult.apiKey = "DEMO_KEY"

----------------------------------------------------------------------------
(* The upstream: what one fetch can end with *)

ErrorStatuses == {403, 404, 429, 500, 503}

\* the reason phrase that comes with a status
StatusText(status) ==
    CASE status = 403 -> "Forbidden"
      [] status = 404 -> "Not Found"
      [] status = 429 -> "Too Many Requests"
      [] status = 500 -> "Internal Server Error"
      [] status = 503 -> "Service Unavailable"
      [] OTHER -> ""

NetworkError ==
    [kind |-> "network", status |-> 0, statusText |-> "", json |-> "none",
     data |-> NullObject]

HttpResponse(status, statusText, json, data) ==
    [kind |-> "http", status |-> status, statusText |-> statusText,
     json |-> json, data |-> data]

\* a JSON object that holds t, u and m under the mapped names of title, url
\* and media type (a value Undefined leaves the property out) and the date
SampleBody(mapping, date, t, u, m) ==
    LET all == [k \in {mapping.title, mapping.url, mapping.mediaType, mapping.date} |->
                   CASE k = mapping.title -> t
                     [] k = mapping.url -> u
                     [] k = mapping.mediaType -> m
                     [] OTHER -> date]
    IN  [k \in {x \in DOMAIN all : all[x] # Undefined} |-> all[k]]

SampleBodies(mapping, date) ==
    {SampleBody(mapping, date, c[1], c[2], c[3]) :
        c \in {<<"T", "U", Undefined>>, <<"T", "U", "video">>,
               <<Undefined, "U", Undefined>>, <<"", "U", Undefined>>,
               <<"T", Undefined, Undefined>>, <<"T", "", Undefined>>,
               <<"T", Undefined, "video">>, <<"T", "U", "other">>}}

Responses(config, date) ==
    {NetworkError}
    \cup {HttpResponse(st, StatusText(st), "none", NullObject) :
             st \in ErrorStatuses}
    \cup {HttpResponse(200, "OK", j, NullObject) : j \in {"invalid", "null"}}
    \cup {HttpResponse(200, "OK", "object", b) :
             b \in SampleBodies(config.responseMapping, date)}

\* response.ok
ok(response) == response.kind = "http" /\ response.status \in 200..299

----------------------------------------------------------------------------
(* AstronomyAPIService.handleApiError and fetchPictureData *)

RateLimitMessage ==
    "Rate limit exceeded. Get your free NASA API key at: https://api.nasa.gov/"
ForbiddenMessage == "API access forbidden. Please check your API key in config.js"
NotFoundMessage == "Picture not found for the selected date"
ServerErrorMessage == "API server error. Please try again later"

\* handleApiError that knows no status
handleApiError_generic(response) ==
    "API request failed: " \o ToString(response.status) \o " "
        \o response.statusText

handleApiError(response) ==
    CASE response.status = 429 -> RateLimitMessage
      [] response.status = 403 -> ForbiddenMessage
      [] response.status = 404 -> NotFoundMessage
      [] response.status = 500 -> ServerErrorMessage
      [] OTHER -> "API request failed: " \o ToString(response.status) \o " "
                     \o response.statusText

\* messages of the exceptions the transport and the runtime raise
FetchFailedMessage == "Failed to fetch"
JsonSyntaxMessage == "Unexpected token '<', \"<!DOCTYPE \"... is not valid JSON"
NullDataMessage(mapping) ==
    "Cannot read properties of null (reading '" \o mapping.title \o "')"

Throw(message) == [threw |-> TRUE, message |-> message, data |-> NullObject]
Return(data) == [threw |-> FALSE, message |-> "", data |-> data]

\* the completion of fetchPictureData(date) when fetch(url) ends with response
fetchPictureData(config, response) ==
    IF response.kind = "network" THEN Throw(FetchFailedMessage)
    ELSE IF ~ok(response) THEN Throw(handleApiError(response))
    ELSE IF response.json = "invalid" THEN Throw(JsonSyntaxMessage)
    ELSE IF response.json = "null" /\ config.responseMapping # NullObject
         THEN Throw(NullDataMessage(config.responseMapping))
    ELSE Return(transformResponse(config.responseMapping, response.data))

----------------------------------------------------------------------------
(* AppState.setState and the subscribers *)

\* MediaComponent.render -> createMediaElement: data.url.includes(...) is
\* evaluated unless media_type is 'video', and throws when url is no string
RenderThrows(st) ==
    /\ st.currentPicture # NullObject
    /\ Get(st.currentPicture, "media_type") # "video"
    /\ Get(st.currentPicture, "url") \in {Undefined, Null, False}

RenderMessage(st) ==
    LET u == Get(st.currentPicture, "url")
    IN  IF u = False THEN "data.url.includes is not a function"
        ELSE "Cannot read properties of "
                \o (IF u = Null THEN "null" ELSE "undefined")
                \o " (reading 'includes')"

\* an error element that never gets the demo button
AddsRetryButton_never(st) == FALSE

\* ErrorComponent.render -> showError: error.includes('Rate limit exceeded')
\* puts the demo button into the error element
AddsRetryButton(st) == Truthy(st.error) /\ st.error = RateLimitMessage

\* the render callbacks in the order initializeComponents subscribes them
Subscribers == <<"loading", "error", "media", "info", "controls">>

\* setState assigns the merged state and then notifies the subscribers in
\* the order loading, error, media, info, controls; an exception of the
\* media component leaves the assignment and the earlier renders in place
\* and ends the forEach, so that info and controls are not called
setState(st, newState) ==
    LET merged == Spread(st, newState)
    IN  [state |-> merged, threw |-> RenderThrows(merged),
         message |-> IF RenderThrows(merged) THEN RenderMessage(merged) ELSE "",
         retry |-> AddsRetryButton(merged),
         notified |-> IF RenderThrows(merged) THEN SubSeq(Subscribers, 1, 3)
                      ELSE Subscribers]

----------------------------------------------------------------------------
(* ControlsComponent.loadPicture *)

\* a catch block that leaves the loading flag as it is
loadPicture_catch_keepsLoading(st, message) ==
    LET s == setState(st, [error |-> message])
    IN  [state |-> s.state, rejected |-> s.threw, retry |-> s.retry,
         notified |-> <<s.notified>>]

\* the catch block
loadPicture_catch(st, message) ==
    LET s == setState(st, [loading |-> FALSE, error |-> message])
    IN  [state |-> s.state, rejected |-> s.threw, retry |-> s.retry,
         notified |-> <<s.notified>>]

\* up to the call of fetch: whether the request goes out
loadPicture_begin(st) ==
    LET s == setState(st, [loading |-> TRUE, error |-> Null])
    IN  IF ~s.threw
        THEN [state |-> s.state, fetches |-> TRUE, rejected |-> FALSE,
              retry |-> s.retry, notified |-> <<s.notified>>]
        ELSE LET c == loadPicture_catch(s.state, s.message)
             IN  [state |-> c.state, fetches |-> FALSE, rejected |-> c.rejected,
                  retry |-> s.retry \/ c.retry,
                  notified |-> <<s.notified>> \o c.notified]

\* a completion that publishes the record without the date it was asked for
loadPicture_settle_noDate(st, date, out) ==
    IF ~out.threw
    THEN LET s == setState(st, [loading |-> FALSE, currentPicture |-> out.data])
         IN  IF ~s.threw
             THEN [state |-> s.state, rejected |-> FALSE, retry |-> s.retry,
                   notified |-> <<s.notified>>]
             ELSE LET c == loadPicture_catch(s.state, s.message)
                  IN  [state |-> c.state, rejected |-> c.rejected,
                       retry |-> s.retry \/ c.retry,
                       notified |-> <<s.notified>> \o c.notified]
    ELSE loadPicture_catch(st, out.message)

\* a completion that publishes the record and leaves the loading flag set
loadPicture_settle_keepsLoading(st, date, out) ==
    IF ~out.threw
    THEN LET s == setState(st, [currentPicture |-> out.data,
                                selectedDate |-> date])
         IN  IF ~s.threw
             THEN [state |-> s.state, rejected |-> FALSE, retry |-> s.retry,
                   notified |-> <<s.notified>>]
             ELSE LET c == loadPicture_catch(s.state, s.message)
                  IN  [state |-> c.state, rejected |-> c.rejected,
                       retry |-> s.retry \/ c.retry,
                       notified |-> <<s.notified>> \o c.notified]
    ELSE loadPicture_catch(st, out.message)

\* from the completion of fetchPictureData on
loadPicture_settle(st, date, out) ==
    IF ~out.threw
    THEN LET s == setState(st, [loading |-> FALSE, currentPicture |-> out.data,
                                selectedDate |-> date])
         IN  IF ~s.threw
             THEN [state |-> s.state, rejected |-> FALSE, retry |-> s.retry,
                   notified |-> <<s.notified>>]
             ELSE LET c == loadPicture_catch(s.state, s.message)
                  IN  [state |-> c.state, rejected |-> c.rejected,
                       retry |-> s.retry \/ c.retry,
                       notified |-> <<s.notified>> \o c.notified]
    ELSE loadPicture_catch(st, out.message)

\* AstronomyAPIService.createDemoSample
createDemoSample ==
    [title |-> "The Horsehead Nebula (Demo Sample)",
     date |-> Today,
     explanation |-> "This is a demo sample showing your futuristic astronomy app.",
     url |-> "https://upload.wikimedia.org/wikipedia/commons/thumb/e/e0/Horsehead_Nebula_0.jpg/512px-Horsehead_Nebula_0.jpg",
     hdurl |-> "https://upload.wikimedia.org/wikipedia/commons/e/e0/Horsehead_Nebula_0.jpg",
     media_type |-> "image",
     copyright |-> "Demo Image from Wikimedia Commons"]

----------------------------------------------------------------------------
(* The application *)

NoResponse ==
    [kind |-> "none", status |-> 0, statusText |-> "", json |-> "none",
     data |-> NullObject]

\* the page as shipped, after initializeComponents: the state of the
\* AppState constructor, and one apiService, built from the profile that
\* config.js selects, shared by the application and the controls
Init ==
    /\ TIdle
    /\ UIdle
    /\ CIdle
    /\ state = [loading |-> FALSE, error |-> Null,
                currentPicture |-> NullObject, selectedDate |-> Today]
    /\ dateInput = Today
    /\ apiConfig = loadApiConfig(API_CONFIGS, ACTIVE_API)
    /\ appApiConfig = apiConfig
    /\ inflight = {}
    /\ loadsStarted = 0
    /\ fetchCalls = 0
    /\ appPhase = "components"
    /\ retryBtn = FALSE
    /\ last = [op |-> "none", id |-> 0, date |-> "", sent |-> 0,
               rejected |-> FALSE, response |-> NoResponse, notified |-> <<>>]

\* one call of loadPicture(date), up to its first await
BeginLoad(date, initial) ==
    \E b \in {loadPicture_begin(state)}, id \in {loadsStarted + 1} :
        /\ loadsStarted < MaxLoads
        /\ state' = b.state
        /\ loadsStarted' = id
        /\ inflight' = IF b.fetches
                       THEN inflight \cup {[id |-> id, date |-> date,
                                            url |-> buildApiUrl(apiConfig, date),
                                            initial |-> initial]}
                       ELSE inflight
        /\ fetchCalls' = IF b.fetches THEN fetchCalls + 1 ELSE fetchCalls
        /\ retryBtn' = (retryBtn \/ b.retry)
        /\ last' = [op |-> "begin", id |-> id, date |-> date,
                    sent |-> IF b.fetches THEN 1 ELSE 0,
                    rejected |-> b.rejected, response |-> NoResponse,
                    notified |-> b.notified]
        /\ UNCHANGED apiConfig

\* initializeApp, from the components on: the automatic initial load
loadTodaysPicture ==
    /\ appPhase = "components"
    /\ dateInput' = Today
    /\ BeginLoad(Today, TRUE)
    /\ appPhase' = "initialLoad"
    /\ UNCHANGED appApiConfig
    /\ UNCHANGED tVars
    /\ UNCHANGED uVars
    /\ UNCHANGED cVars

ControlsUsable == appPhase \in {"initialLoad", "ready"}

\* the user edits the date input
SetDateInput(d) ==
    /\ ControlsUsable
    /\ d # dateInput
    /\ dateInput' = d
    /\ UNCHANGED <<state, apiConfig, inflight, loadsStarted, fetchCalls,
                   appPhase, retryBtn, last>>
    /\ UNCHANGED appApiConfig
    /\ UNCHANGED tVars
    /\ UNCHANGED uVars
    /\ UNCHANGED cVars

\* a click on the fetch button, or Enter in the date input
handleFetchClick ==
    /\ ControlsUsable
    /\ dateInput # ""
    /\ BeginLoad(dateInput, FALSE)
    /\ UNCHANGED <<dateInput, appPhase>>
    /\ UNCHANGED appApiConfig
    /\ UNCHANGED tVars
    /\ UNCHANGED uVars
    /\ UNCHANGED cVars

\* a click on the today button
handleTodayClick ==
    /\ ControlsUsable
    /\ dateInput' = Today
    /\ BeginLoad(Today, FALSE)
    /\ UNCHANGED appPhase
    /\ UNCHANGED appApiConfig
    /\ UNCHANGED tVars
    /\ UNCHANGED uVars
    /\ UNCHANGED cVars

\* the request r ends with response, and the loadPicture call that awaits
\* it runs to its end; the initial load then lets initializeApp finish
Settle(r, response) ==
    \E s \in {loadPicture_settle(state, r.date,
                                  fetchPictureData(apiConfig, response))} :
        /\ state' = s.state
        /\ inflight' = inflight \ {r}
        /\ appPhase' = IF r.initial
                       THEN (IF s.rejected THEN "initFailed" ELSE "ready")
                       ELSE appPhase
        /\ retryBtn' = (retryBtn \/ s.retry)
        /\ last' = [op |-> "settle", id |-> r.id, date |-> r.date, sent |-> 0,
                    rejected |-> s.rejected, response |-> response,
                    notified |-> s.notified]
        /\ UNCHANGED <<dateInput, apiConfig, loadsStarted, fetchCalls>>
        /\ UNCHANGED appApiConfig
        /\ UNCHANGED tVars
        /\ UNCHANGED uVars
        /\ UNCHANGED cVars

\* a click on the demo button of the error element
retryBtnClick ==
    \E s \in {setState(state, [error |-> Null, currentPicture |-> createDemoSample])} :
        /\ ControlsUsable
        /\ retryBtn
        /\ Truthy(state.error)          \* the error element is shown
        /\ state' = s.state
        /\ last' = [op |-> "demo", id |-> 0, date |-> "", sent |-> 0,
                    rejected |-> s.threw, response |-> NoResponse,
                    notified |-> <<s.notified>>]
        /\ UNCHANGED <<dateInput, apiConfig, inflight, loadsStarted, fetchCalls,
                       appPhase, retryBtn>>
        /\ UNCHANGED appApiConfig
        /\ UNCHANGED tVars
        /\ UNCHANGED uVars
        /\ UNCHANGED cVars

EditDateInput == \E d \in Dates \cup {""} : SetDateInput(d)

RequestSettles ==
    \E r \in inflight : \E response \in Responses(apiConfig, r.date) :
        Settle(r, response)

Next ==
    \/ loadTodaysPicture
    \/ EditDateInput
    \/ handleFetchClick
    \/ handleTodayClick
    \/ retryBtnClick
    \/ RequestSettles

Spec == Init /\ [][Next]_vars

----------------------------------------------------------------------------
(* The page with its public API: window.astronomyApp.updateApiConfig *)

\* configurations passed to updateApiConfig
NewConfigs == {[apiKey |-> "my-secret-key"], [dateParam |-> "picture_date"]}

\* window.astronomyApp is assigned when the constructor returns, which is
\* at the first await of initializeApp; the components, built before that
\* with the first apiService, are not touched
updateApiConfig(newConfig) ==
    /\ appPhase \in {"initialLoad", "ready", "initFailed"}
    /\ appApiConfig' = Spread(appApiConfig, newConfig)
    /\ last' = [op |-> "update", id |-> 0, date |-> "", sent |-> 0,
                rejected |-> FALSE, response |-> NoResponse, notified |-> <<>>]
    /\ UNCHANGED <<state, dateInput, apiConfig, inflight, loadsStarted,
                   fetchCalls, appPhase, retryBtn>>
    /\ UNCHANGED tVars
    /\ UNCHANGED uVars
    /\ UNCHANGED cVars

ConsoleUpdate == \E newConfig \in NewConfigs : updateApiConfig(newConfig)

NextConsole ==
    \/ loadTodaysPicture
    \/ EditDateInput
    \/ handleFetchClick
    \/ handleTodayClick
    \/ retryBtnClick
    \/ RequestSettles
    \/ ConsoleUpdate

SpecConsole == Init /\ [][NextConsole]_vars

\* C13 (as stated): a load started from the controls issues its request
\* with the configuration the application holds after the updates made so
\* far, the keys of each newConfig replaced and the other keys kept.
C13_LoadsUseUpdatedConfig ==
    (last.op = "begin" /\ last.sent = 1) =>
        \A r \in inflight :
            r.id = last.id => r.url = buildApiUrl(appApiConfig, r.date)

----------------------------------------------------------------------------
(* Claims about the application *)

\* a non-empty string
NonEmpty(v) == v \notin {Undefined, Null, False, ""}

\* C4 (as stated): a response missing title or url is rejected; in every
\* reachable state currentPicture is null or has a non-empty title and a
\* non-empty url.
C4_PictureHasTitleAndUrl ==
    state.currentPicture # NullObject
        => /\ NonEmpty(Get(state.currentPicture, "title"))
           /\ NonEmpty(Get(state.currentPicture, "url"))

FailedHttp(l) ==
    l.op = "settle" /\ l.response.kind = "http" /\ ~ok(l.response)

\* C5: when a request ends with a non-success HTTP response, state.error
\* is the message of the status (429 rate limit, 403 forbidden, 404 not
\* found, 500 server error, otherwise 'API request failed: <status>
\* <statusText>') and currentPicture stays what it was.
C5_ErrorByStatus ==
    [][FailedHttp(last') =>
          /\ state'.error =
                CASE last'.response.status = 429 -> RateLimitMessage
                  [] last'.response.status = 403 -> ForbiddenMessage
                  [] last'.response.status = 404 -> NotFoundMessage
                  [] last'.response.status = 500 -> ServerErrorMessage
                  [] OTHER -> "API request failed: "
                                 \o ToString(last'.response.status) \o " "
                                 \o last'.response.statusText
          /\ state'.currentPicture = state.currentPicture]_vars

\* a 503 has been answered while a picture was held: the generic message
\* is shown and the picture is still there
C5_Witness ==
    /\ FailedHttp(last)
    /\ last.response.status = 503
    /\ state.error = "API request failed: 503 Service Unavailable"
    /\ state.currentPicture # NullObject

\* C6 (as stated): at most one fetch is outstanding at any time.
C6_AtMostOneOutstanding == Cardinality(inflight) <= 1

\* C8 (as stated): each load issues exactly one network request whatever
\* its outcome: the calls of fetch are as many as the loads started, and no
\* load goes without its request.
C8_OneRequestPerLoad ==
    /\ fetchCalls = loadsStarted
    /\ last.op = "begin" => last.sent = 1

\* a load that did not end with a picture
FailedLoad(l) ==
    \/ l.op = "settle" /\ ~(ok(l.response) /\ l.response.json = "object")
    \/ l.op \in {"begin", "settle"} /\ l.rejected
    \/ l.op = "begin" /\ l.sent = 0

StatusMessages ==
    {RateLimitMessage, ForbiddenMessage, NotFoundMessage, ServerErrorMessage}

\* C9: after every failure of a load, loading is false and state.error is
\* a string: one of the fixed strings or the 'API request failed' string
\* for a failure classified by HTTP status, and the message of the
\* exception for a network error or a body that is not valid JSON.
C9_FailureSurfacesError ==
    FailedLoad(last) =>
        /\ state.loading = FALSE
        /\ NonEmpty(state.error)
        /\ FailedHttp(last) =>
              \/ state.error \in StatusMessages
              \/ state.error = "API request failed: "
                                  \o ToString(last.response.status) \o " "
                                  \o last.response.statusText
        /\ (last.op = "settle" /\ last.response.kind = "network")
              => state.error = FetchFailedMessage
        /\ (last.op = "settle" /\ ok(last.response)
                /\ last.response.json = "invalid")
              => state.error = JsonSyntaxMessage

\* a request has failed on the network while a second one was outstanding
C9_Witness ==
    /\ last.op = "settle"
    /\ last.response.kind = "network"
    /\ inflight # {}
    /\ state.error = FetchFailedMessage
    /\ state.loading = FALSE

SuccessfulFetch(l) ==
    l.op = "settle" /\ ok(l.response) /\ l.response.json = "object"

\* C10: when the request of a load for date d completes successfully, the
\* state has loading = false, currentPicture = the normalized record of
\* that response and selectedDate = d, whatever picture was held before.
C10_SuccessOverwrites ==
    [][SuccessfulFetch(last') =>
          /\ state'.loading = FALSE
          /\ state'.currentPicture =
                transformResponse(apiConfig.responseMapping, last'.response.data)
          /\ state'.selectedDate = last'.date]_vars

\* a load for another day than today has replaced the picture
C10_Witness ==
    /\ SuccessfulFetch(last)
    /\ last.date # Today
    /\ last.id > 1
    /\ state.selectedDate = last.date
    /\ Get(state.currentPicture, "date") = last.date
    /\ Get(state.currentPicture, "title") = "T"


\* C12 (as stated): every picture record held in currentPicture has
\* media_type "image" or "video", whatever the upstream answered.
C12_MediaTypeImageOrVideo ==
    state.currentPicture # NullObject =>
        Get(state.currentPicture, "media_type") \in {"image", "video"}


\* C14: whenever the rate-limit error is the error shown, the error element
\* holds the demo button; a click on it sets error to null and
\* currentPicture to the static demo record (non-empty title and url,
\* media_type "image"), sends no request and leaves loading, selectedDate
\* and the outstanding requests as they were.
C14_DemoFallback ==
    [][/\ state'.error = RateLimitMessage => retryBtn'
       /\ (last'.op = "demo" /\ last' # last) =>
            /\ state'.error = Null
            /\ state'.currentPicture = createDemoSample
            /\ NonEmpty(state'.currentPicture.title)
            /\ NonEmpty(state'.currentPicture.url)
            /\ state'.currentPicture.media_type = "image"
            /\ state'.loading = state.loading
            /\ state'.selectedDate = state.selectedDate
            /\ fetchCalls' = fetchCalls
            /\ inflight' = inflight]_vars

\* the demo record was put in place of a rate-limit error while another
\* load was still outstanding
C14_Witness ==
    /\ last.op = "demo"
    /\ retryBtn
    /\ state.error = Null
    /\ state.currentPicture = createDemoSample
    /\ state.selectedDate = Today
    /\ inflight # {}
    /\ fetchCalls = 2


\* C15 (as stated): a setState call replaces exactly the keys it is given
\* and keeps the others (shown on the two handlers that make one call: the
\* start of a load and the demo button), and every setState call of a
\* handler calls all five subscribers once each, in subscription order.
C15_SetStateMergesAndNotifiesAll ==
    [][last' # last =>
         /\ (last'.op = "begin" /\ last'.sent = 1) =>
                state' = [state EXCEPT !.loading = TRUE, !.error = Null]
         /\ last'.op = "demo" =>
                state' = [state EXCEPT !.error = Null,
                                       !.currentPicture = createDemoSample]
         /\ \A i \in DOMAIN last'.notified :
                last'.notified[i] = Subscribers]_vars


\* C16 (as stated): a load that fails changes only loading and error: the
\* step in which it fails leaves currentPicture and selectedDate as they
\* were.
C16_FailedLoadKeepsPicture ==
    [][(last' # last /\ FailedLoad(last')) =>
          /\ state'.currentPicture = state.currentPicture
          /\ state'.selectedDate = state.selectedDate]_vars

\* C17 (as stated): whenever a fetch request is outstanding, loading is
\* true.
C17_LoadingWhileOutstanding == inflight # {} => state.loading = TRUE

\* C18 (as stated, for two overlapping loads for different days): when the
\* load started last has completed successfully and the request of the load
\* started before it then completes successfully as the last one,
\* currentPicture and selectedDate are still those of the load started last.
C18_LastStartedLoadWins ==
    [][(/\ loadsStarted = 2
        /\ SuccessfulFetch(last) /\ ~last.rejected /\ last.id = 2
        /\ SuccessfulFetch(last') /\ ~last'.rejected /\ last'.id = 1
        /\ last'.date # last.date
        /\ inflight' = {}) =>
          /\ state'.currentPicture =
                transformResponse(apiConfig.responseMapping, last.response.data)
          /\ state'.selectedDate = last.date]_vars

\* C19 (as stated): no call of loadPicture rejects, every failed load ends
\* with loading = false and error set, and initializeApp never reaches
\* handleInitializationError.
C19_LoadPictureNeverRejects ==
    /\ last.op \in {"begin", "settle"} => ~last.rejected
    /\ FailedLoad(last) => (state.loading = FALSE /\ NonEmpty(state.error))
    /\ appPhase # "initFailed"


----------------------------------------------------------------------------
(* The application with an upstream that answers every request *)

\* one response for each way a load can end: an error (the rate-limit
\* status, which also brings the demo button), a complete record and a
\* record without url
OutcomeResponses(config, date) ==
    {HttpResponse(429, StatusText(429), "none", NullObject)}
    \cup {HttpResponse(200, "OK", "object",
                       SampleBody(config.responseMapping, date, "T", u, Undefined)) :
             u \in {"U", Undefined}}

RequestCompletes ==
    \E r \in inflight : \E response \in OutcomeResponses(apiConfig, r.date) :
        Settle(r, response)

NextFair ==
    \/ loadTodaysPicture
    \/ EditDateInput
    \/ handleFetchClick
    \/ handleTodayClick
    \/ retryBtnClick
    \/ RequestCompletes

\* every issued request eventually resolves or rejects: a completion that
\* stays possible is eventually delivered
FairSpec == Init /\ [][NextFair]_vars /\ WF_vars(RequestCompletes)

\* no load is under way and the page shows a picture or an error
Quiescent ==
    /\ inflight = {}
    /\ state.loading = FALSE
    /\ state.currentPicture # NullObject \/ Truthy(state.error)

\* C20: once loads have been started, the application always comes back to
\* a state with no outstanding request and loading = false in which a
\* picture or an error is set.
C20_LoadsEventuallyFinish == (loadsStarted > 0) ~> Quiescent

\* two loads, the second started while the first was outstanding, have
\* both finished
C20_Witness ==
    /\ Quiescent
    /\ loadsStarted = 2
    /\ fetchCalls = 2
    /\ last.op = "settle"
    /\ last.id = 1

====
